---- MODULE Spec2Model ----
(***************************************************************************)
(* Model of the reasoning-graph viewer: the JSONL log scan                 *)
(* (load_graph_from_jsonl), the level calculator (calculate_node_levels),  *)
(* the network assembly (create_pyvis_network) and the title formatter     *)
(* (get_smart_title, find_natural_break).                                  *)
(*                                                                         *)
(* Three specifications share the variables; each one starts its own part  *)
(* from bounded inputs and leaves the other parts idle:                    *)
(*   SpecLoad   load_graph_from_jsonl over every log of up to MaxLog lines *)
(*   SpecGraph  create_pyvis_network over every small graph                *)
(*   SpecTitle  get_smart_title over every small text and pair of bounds   *)
(***************************************************************************)
EXTENDS Integers, Sequences, FiniteSets, TLC

VARIABLES
    \* load_graph_from_jsonl
    log,            \* the lines of the file, oldest first
    line_no,        \* number of lines the for loop has read
    graph,          \* the local `graph`: "None" or a Graph
    warnings,       \* the line numbers st.warning was called for
    lpc,            \* "idle" | "scan" | "returned" | "raised"
    \* create_pyvis_network / calculate_node_levels
    in_graph,       \* the Graph argument: [order, premises]
    node_levels,    \* the dict calculate_node_levels returned
    net_nodes,      \* net.add_node calls so far: <<[id, level]>>
    net_edges,      \* net.add_edge calls so far: <<[source, to]>>
    node_idx,       \* position of the running for loop over graph.nodes
    gpc,            \* "idle" | "levels" | "nodes" | "edges" | "done" | "raised"
    \* get_smart_title
    node_content,   \* the argument text, a sequence of characters
    max_words_per_line,
    max_lines,
    text,           \* the normalized text
    words,          \* text.split()
    lines,          \* the list `lines`, each line a sequence of characters
    current_line_words,
    word_idx,
    line_num,
    result,         \* the returned string
    tpc             \* "idle" | "start" | "collect" | "close" | "done"

loadVars  == <<log, line_no, graph, warnings, lpc>>
graphVars == <<in_graph, node_levels, net_nodes, net_edges, node_idx, gpc>>
titleVars == <<node_content, max_words_per_line, max_lines, text, words, lines,
               current_line_words, word_idx, line_num, result, tpc>>
vars == <<loadVars, graphVars, titleVars>>

None == "None"

(***************************************************************************)
(* Bounds of the model                                                     *)
(***************************************************************************)
MaxLog == 3

(***************************************************************************)
(* Idle values of the parts a specification does not run                   *)
(***************************************************************************)
LoadIdle ==
    /\ log = << >> /\ line_no = 0 /\ graph = None /\ warnings = {} /\ lpc = "idle"

(***************************************************************************)
(* load_graph_from_jsonl                                                   *)
(***************************************************************************)
\* The two graphs the log records carry (the end-to-end example: n1 alone,
\* then n1 and n2 with n2 resting on n1).
G1 == [order |-> <<"n1">>, premises |-> [n \in {"n1"} |-> << >>]]
G2 == [order |-> <<"n1", "n2">>,
       premises |-> [n \in {"n1", "n2"} |-> IF n = "n2" THEN <<"n1">> ELSE << >>]]

\* What one line of the file can be.
\*   top      "blank"      only whitespace
\*            "badjson"    json.loads raises JSONDecodeError
\*            "nonobject"  valid JSON that is not an object (list, number,
\*                         string, null): it has no .get
\*            "object"     a JSON object
\*   event    the value of event.get("event"); "OtherEvent" is any value
\*            that is neither of the two recognised tags, an absent one too
\*   data     "absent" (the default {} is used), "nonobject" (a value with no
\*            .get) or "object"
\*   graph    the value of data.get("graph", {}): "empty" (absent or falsy),
\*            "nonmapping" (truthy, but ** cannot unpack it) or a payload
\*            Graph(**graph_data) builds
Events == {"SystemFinishEvent", "GraphMergeEvent", "OtherEvent"}
Payloads == {"empty", "nonmapping", "G1", "G2"}
LogLines ==
    {[top |-> t, event |-> "-", data |-> "-", graph |-> "-"] :
        t \in {"blank", "badjson", "nonobject"}}
    \cup {[top |-> "object", event |-> e, data |-> d, graph |-> "-"] :
        e \in Events, d \in {"absent", "nonobject"}}
    \cup {[top |-> "object", event |-> e, data |-> "object", graph |-> p] :
        e \in Events, p \in Payloads}

\* Graph(**graph_data) for a truthy graph_data.
GraphCtor(p) ==
    CASE p = "G1" -> [raised |-> "no", value |-> G1]
      [] p = "G2" -> [raised |-> "no", value |-> G2]
      [] OTHER    -> [raised |-> "TypeError", value |-> None]

\* data.get("graph", {}) followed by `if graph_data:` and the construction.
\* The result is the new value of `graph`, the exception raised ("no" for
\* none) and whether the branch took its assignment.
ReadGraph(r, cur) ==
    IF r.data = "nonobject"
    THEN [graph |-> cur, raised |-> "AttributeError", assigned |-> FALSE]
    ELSE IF r.data = "absent" \/ r.graph = "empty"
    THEN [graph |-> cur, raised |-> "no", assigned |-> FALSE]
    ELSE LET c == GraphCtor(r.graph) IN
         IF c.raised # "no"
         THEN [graph |-> cur, raised |-> c.raised, assigned |-> FALSE]
         ELSE [graph |-> c.value, raised |-> "no", assigned |-> TRUE]

\* The exceptions the except clause names.
Caught == {"JSONDecodeError", "KeyError", "TypeError"}

\* Mutant: the loop goes on after a SystemFinishEvent graph was built.
BreakOnFinish_Never(assigned) == FALSE

\* The break after a SystemFinishEvent graph was built.
BreakOnFinish(assigned) == assigned

\* One iteration of the for loop over the lines, from `graph` = cur:
\* ctl is "continue", "break" or "raise" (an exception the except clause
\* does not name leaves the function).
ProcessLine(r, cur) ==
    LET body ==
            CASE r.top = "blank"     -> [graph |-> cur, raised |-> "no", brk |-> FALSE]
              [] r.top = "badjson"   -> [graph |-> cur, raised |-> "JSONDecodeError", brk |-> FALSE]
              [] r.top = "nonobject" -> [graph |-> cur, raised |-> "AttributeError", brk |-> FALSE]
              [] OTHER ->
                    IF r.event = "SystemFinishEvent"
                    THEN LET g == ReadGraph(r, cur) IN
                         [graph |-> g.graph, raised |-> g.raised,
                          brk |-> BreakOnFinish(g.assigned)]
                    ELSE IF r.event = "GraphMergeEvent"
                    THEN LET g == ReadGraph(r, cur) IN
                         [graph |-> g.graph, raised |-> g.raised, brk |-> FALSE]
                    ELSE [graph |-> cur, raised |-> "no", brk |-> FALSE]
    IN  [graph |-> body.graph,
         warn  |-> body.raised \in Caught,
         ctl   |-> IF body.raised = "no"
                   THEN (IF body.brk THEN "break" ELSE "continue")
                   ELSE IF body.raised \in Caught THEN "continue" ELSE "raise"]

InitLoad ==
    /\ \E n \in 0..MaxLog : log \in [1..n -> LogLines]
    /\ line_no = 0
    /\ graph = None
    /\ warnings = {}
    /\ lpc = "scan"

\* The for loop reads the next line and runs its body.
ScanLine ==
    /\ lpc = "scan"
    /\ line_no < Len(log)
    /\ LET p == ProcessLine(log[line_no + 1], graph) IN
         /\ graph' = p.graph
         /\ warnings' = IF p.warn THEN warnings \cup {line_no + 1} ELSE warnings
         /\ lpc' = CASE p.ctl = "break" -> "returned"
                     [] p.ctl = "raise" -> "raised"
                     [] OTHER -> "scan"
    /\ line_no' = line_no + 1
    /\ UNCHANGED <<log, graphVars, titleVars>>

\* The file is exhausted: return graph.
EndOfFile ==
    /\ lpc = "scan"
    /\ line_no = Len(log)
    /\ lpc' = "returned"
    /\ UNCHANGED <<log, line_no, graph, warnings, graphVars, titleVars>>

NextLoad == ScanLine \/ EndOfFile

\* The whole function on a log: what it returns, or that it raised.
RECURSIVE ScanFrom(_, _, _)
ScanFrom(lg, i, cur) ==
    IF i > Len(lg) THEN [graph |-> cur, raised |-> FALSE]
    ELSE LET p == ProcessLine(lg[i], cur) IN
         CASE p.ctl = "break" -> [graph |-> p.graph, raised |-> FALSE]
           [] p.ctl = "raise" -> [graph |-> None, raised |-> TRUE]
           [] OTHER -> ScanFrom(lg, i + 1, p.graph)

load_graph_from_jsonl(lg) == ScanFrom(lg, 1, None)

(***************************************************************************)
(* calculate_node_levels                                                   *)
(***************************************************************************)
\* graph.nodes in insertion order; a graph of the model holds the first n
\* of these ids.  A premise names one of them or "ghost", which is never a
\* node: a premise naming an id outside the graph is a dangling reference.
NodeOrder == <<"a", "b", "c">>
NodeIds == {NodeOrder[i] : i \in 1..Len(NodeOrder)}
PremiseIds == NodeIds \cup {"ghost"}

\* Longest premise list of a node.
MaxPremises == 2

\* Depth of nested get_level calls at which the interpreter raises
\* RecursionError (far above the number of nodes, as in the interpreter).
RecursionLimit == 6

GraphIdle ==
    /\ in_graph = [order |-> << >>, premises |-> << >>]
    /\ node_levels = << >> /\ net_nodes = << >> /\ net_edges = << >>
    /\ node_idx = 0 /\ gpc = "idle"

PremiseLists == UNION {[1..k -> PremiseIds] : k \in 0..MaxPremises}

\* `x in graph.nodes`
Nodes(g) == DOMAIN g.premises

\* Mutant: the smallest parent level is taken instead of the largest.
SeqMax_Min(s) == CHOOSE m \in {s[i] : i \in 1..Len(s)} : \A i \in 1..Len(s) : m <= s[i]

SeqMax(s) == CHOOSE m \in {s[i] : i \in 1..Len(s)} : \A i \in 1..Len(s) : s[i] <= m

\* Mutant: the level of a node is the level of its deepest premise.
ParentLevel_NoIncrement(parent_levels) == SeqMax(parent_levels)

\* level = max(parent_levels) + 1
ParentLevel(parent_levels) == SeqMax(parent_levels) + 1

\* get_level(node_id) with the dict `levels` passed in and out; depth counts
\* the get_level frames on the stack.  parent_levels is the list
\* comprehension, evaluated left to right.
RECURSIVE get_level(_, _, _, _)
RECURSIVE parent_levels(_, _, _, _, _)
get_level(g, levels, node_id, depth) ==
    IF depth > RecursionLimit
    THEN [levels |-> levels, ret |-> 0, raised |-> TRUE]
    ELSE IF node_id \in DOMAIN levels
    THEN [levels |-> levels, ret |-> levels[node_id], raised |-> FALSE]
    ELSE IF node_id \notin Nodes(g)
    THEN [levels |-> levels, ret |-> 0, raised |-> FALSE]
    ELSE IF g.premises[node_id] = << >>
    THEN [levels |-> (node_id :> 0) @@ levels, ret |-> 0, raised |-> FALSE]
    ELSE LET pl == parent_levels(g, levels, g.premises[node_id], 1, depth) IN
         IF pl.raised
         THEN [levels |-> pl.levels, ret |-> 0, raised |-> TRUE]
         ELSE LET level == IF pl.vals # << >> THEN ParentLevel(pl.vals) ELSE 0 IN
              [levels |-> (node_id :> level) @@ pl.levels, ret |-> level,
               raised |-> FALSE]

parent_levels(g, levels, premises, i, depth) ==
    IF i > Len(premises)
    THEN [levels |-> levels, vals |-> << >>, raised |-> FALSE]
    ELSE IF premises[i] \notin Nodes(g)
    THEN parent_levels(g, levels, premises, i + 1, depth)
    ELSE LET r == get_level(g, levels, premises[i], depth + 1) IN
         IF r.raised
         THEN [levels |-> r.levels, vals |-> << >>, raised |-> TRUE]
         ELSE LET rest == parent_levels(g, r.levels, premises, i + 1, depth) IN
              [levels |-> rest.levels, vals |-> <<r.ret>> \o rest.vals,
               raised |-> rest.raised]

\* for node_id in graph.nodes: get_level(node_id)
RECURSIVE LevelsLoop(_, _, _)
LevelsLoop(g, levels, i) ==
    IF i > Len(g.order)
    THEN [levels |-> levels, raised |-> FALSE]
    ELSE LET r == get_level(g, levels, g.order[i], 1) IN
         IF r.raised THEN [levels |-> r.levels, raised |-> TRUE]
         ELSE LevelsLoop(g, r.levels, i + 1)

calculate_node_levels(g) == LevelsLoop(g, << >>, 1)

(***************************************************************************)
(* create_pyvis_network                                                    *)
(***************************************************************************)
InitGraph ==
    /\ \E n \in 0..Len(NodeOrder) :
         \E f \in [{NodeOrder[i] : i \in 1..n} -> PremiseLists] :
            in_graph = [order |-> SubSeq(NodeOrder, 1, n), premises |-> f]
    /\ node_levels = << >>
    /\ net_nodes = << >>
    /\ net_edges = << >>
    /\ node_idx = 0
    /\ gpc = "levels"

\* node_levels = calculate_node_levels(graph); a RecursionError leaves
\* create_pyvis_network.
CalcLevels ==
    /\ gpc = "levels"
    /\ LET r == calculate_node_levels(in_graph) IN
         IF r.raised
         THEN /\ gpc' = "raised"
              /\ UNCHANGED node_levels
         ELSE /\ gpc' = "nodes"
              /\ node_levels' = r.levels
    /\ UNCHANGED <<in_graph, net_nodes, net_edges, node_idx, loadVars, titleVars>>

\* node_levels.get(node_id, 0)
LevelGet(levels, node_id) == IF node_id \in DOMAIN levels THEN levels[node_id] ELSE 0

\* One iteration of the "Add nodes" loop.  The label, tooltip, colour and size
\* passed to add_node are display attributes nothing reads back; the id and the
\* level are kept.
AddNode ==
    /\ gpc = "nodes"
    /\ node_idx < Len(in_graph.order)
    /\ LET node_id == in_graph.order[node_idx + 1] IN
         net_nodes' = Append(net_nodes,
                        [id |-> node_id, level |-> LevelGet(node_levels, node_id)])
    /\ node_idx' = node_idx + 1
    /\ UNCHANGED <<in_graph, node_levels, net_edges, gpc, loadVars, titleVars>>

\* The "Add nodes" loop is exhausted; the "Add edges" loop starts.
NodesDone ==
    /\ gpc = "nodes"
    /\ node_idx = Len(in_graph.order)
    /\ gpc' = "edges"
    /\ node_idx' = 0
    /\ UNCHANGED <<in_graph, node_levels, net_nodes, net_edges, loadVars, titleVars>>

\* `if premise_id in graph.nodes` of the edge loop
EdgeGuard(g, premise_id) == premise_id \in Nodes(g)

\* for premise_id in node.premises: if premise_id in graph.nodes: add_edge
RECURSIVE NodeEdges(_, _, _)
NodeEdges(g, node_id, i) ==
    IF i > Len(g.premises[node_id]) THEN << >>
    ELSE (IF EdgeGuard(g, g.premises[node_id][i])
          THEN <<[source |-> g.premises[node_id][i], to |-> node_id]>>
          ELSE << >>) \o NodeEdges(g, node_id, i + 1)

\* One iteration of the outer "Add edges" loop.
AddEdges ==
    /\ gpc = "edges"
    /\ node_idx < Len(in_graph.order)
    /\ net_edges' = net_edges \o NodeEdges(in_graph, in_graph.order[node_idx + 1], 1)
    /\ node_idx' = node_idx + 1
    /\ UNCHANGED <<in_graph, node_levels, net_nodes, gpc, loadVars, titleVars>>

\* The "Add edges" loop is exhausted; the network is returned.
EdgesDone ==
    /\ gpc = "edges"
    /\ node_idx = Len(in_graph.order)
    /\ gpc' = "done"
    /\ UNCHANGED <<in_graph, node_levels, net_nodes, net_edges, node_idx, loadVars, titleVars>>

NextGraph == CalcLevels \/ AddNode \/ NodesDone \/ AddEdges \/ EdgesDone

(***************************************************************************)
(* get_smart_title                                                         *)
(***************************************************************************)
\* A string is a sequence of one-character strings.
MaxWords == 6          \* most words of an input text
MaxWordsPerLine == 4   \* largest max_words_per_line tried
MaxLinesBound == 3     \* largest max_lines tried

TitleIdle ==
    /\ node_content = << >> /\ max_words_per_line = 0 /\ max_lines = 0
    /\ text = << >> /\ words = << >> /\ lines = << >>
    /\ current_line_words = << >> /\ word_idx = 0 /\ line_num = 0
    /\ result = None /\ tpc = "idle"

Whitespace == {" ", "\n", "\t"}

\* The words the input texts are made of: a plain word, a word ending with
\* break punctuation, and a capitalised stop word.
Vocabulary == {<<"a", "b">>, <<"c", ",">>, <<"T", "h", "e">>}

\* How the words are laid out in the raw text: [sep, pad].
Layouts == {[sep |-> <<" ">>, pad |-> << >>],
            [sep |-> <<"\n", " ">>, pad |-> <<" ">>]}

RECURSIVE JoinSeq(_, _)
\* sep.join(parts)
JoinSeq(parts, sep) ==
    IF parts = << >> THEN << >>
    ELSE IF Len(parts) = 1 THEN parts[1]
    ELSE parts[1] \o sep \o JoinSeq(Tail(parts), sep)

\* The raw text of the words ws in layout l.
RawText(ws, l) == l.pad \o JoinSeq(ws, l.sep) \o l.pad

\* str.strip()
RECURSIVE LStrip(_)
LStrip(s) == IF s # << >> /\ Head(s) \in Whitespace THEN LStrip(Tail(s)) ELSE s
RECURSIVE RStripWs(_)
RStripWs(s) ==
    IF s # << >> /\ s[Len(s)] \in Whitespace THEN RStripWs(SubSeq(s, 1, Len(s) - 1)) ELSE s
Strip(s) == RStripWs(LStrip(s))

\* str.split(): the maximal runs of non-whitespace characters
RECURSIVE SplitFrom(_, _, _, _)
SplitFrom(s, i, cur, acc) ==
    LET flushed == IF cur = << >> THEN acc ELSE Append(acc, cur) IN
    IF i > Len(s) THEN flushed
    ELSE IF s[i] \in Whitespace THEN SplitFrom(s, i + 1, << >>, flushed)
    ELSE SplitFrom(s, i + 1, Append(cur, s[i]), acc)
Split(s) == SplitFrom(s, 1, << >>, << >>)

\* Mutant: the text is trimmed and its inner whitespace left alone.
Normalize_StripOnly(content) == Strip(content)

\* text = " ".join(node_content.strip().split())
Normalize(content) == JoinSeq(Split(Strip(content)), <<" ">>)

\* str.lower() on the letters of the model's alphabet
LowerChar(c) == IF c = "T" THEN "t" ELSE c
Lower(w) == [i \in 1..Len(w) |-> LowerChar(w[i])]

break_punctuation == {",", ";", ":", ".", "!", "?"}

dont_break_before ==
    {<<"t", "h", "e">>, <<"a">>, <<"a", "n">>, <<"o", "f">>, <<"i", "n">>,
     <<"o", "n">>, <<"a", "t">>, <<"t", "o">>, <<"f", "o", "r">>,
     <<"a", "n", "d">>, <<"o", "r">>, <<"b", "u", "t">>,
     <<"w", "i", "t", "h">>, <<"f", "r", "o", "m">>, <<"b", "y">>}

\* any(word.endswith(p) for p in break_punctuation)
EndsWithBreak(word) == word # << >> /\ word[Len(word)] \in break_punctuation

\* Mutant: the backward scan stops one word earlier.
ScanStop_Short(n) == IF n - 3 > 0 THEN n - 3 ELSE 0

\* The stop of range(len(current_words) - 1, max(0, len(current_words) - 4), -1):
\* the 0-based index the backward scan does not reach.
ScanStop(n) == IF n - 4 > 0 THEN n - 4 ELSE 0

\* The for loop over that range at 0-based index i: the first word ending
\* with break punctuation cuts the line after it; -1 when the range is
\* exhausted.
RECURSIVE PunctuationBreak(_, _)
PunctuationBreak(current_words, i) ==
    IF i <= ScanStop(Len(current_words)) THEN -1
    ELSE IF EndsWithBreak(current_words[i + 1]) THEN i
    ELSE PunctuationBreak(current_words, i - 1)

\* find_natural_break(current_words, all_words, next_idx); last_word is
\* assigned there and never read.
find_natural_break(current_words, all_words, next_idx) ==
    IF current_words = << >> THEN current_words
    ELSE LET i == PunctuationBreak(current_words, Len(current_words) - 1) IN
         IF i >= 0 THEN SubSeq(current_words, 1, i + 1)
         ELSE IF /\ next_idx < Len(all_words)
                 /\ Lower(all_words[next_idx + 1]) \in dont_break_before
                 /\ Len(current_words) > 3
         THEN SubSeq(current_words, 1, Len(current_words) - 1)
         ELSE current_words

\* Mutant: the while loop takes one word more than target_words.
WhileCond_OneMore(all_words, idx, cur, target_words) ==
    idx < Len(all_words) /\ Len(cur) <= target_words

\* The condition of the while loop that collects the words of a line.
WhileCond(all_words, idx, cur, target_words) ==
    idx < Len(all_words) /\ Len(cur) < target_words

\* while ...: current_line_words.append(words[word_idx]); word_idx += 1
RECURSIVE CollectWords(_, _, _, _)
CollectWords(all_words, idx, cur, target_words) ==
    IF WhileCond(all_words, idx, cur, target_words)
    THEN CollectWords(all_words, idx + 1, Append(cur, all_words[idx + 1]), target_words)
    ELSE [current_line_words |-> cur, word_idx |-> idx]

\* Mutant: the pointer is left where the while loop stopped.
PointerCorrection_None(idx, target_words, kept) == idx

\* word_idx = word_idx - (target_words - len(current_line_words))
PointerCorrection(idx, target_words, kept) == idx - (target_words - kept)

\* `if line_num < max_lines - 1 and word_idx < len(words)`
AdjustCond(ln, ml, idx, all_words) == ln < ml - 1 /\ idx < Len(all_words)

\* The rest of a loop iteration after the while loop: the natural-break
\* adjustment and lines.append.
CloseLine(all_words, idx, cur, ln, mw, ml, ls) ==
    LET adj  == AdjustCond(ln, ml, idx, all_words)
        kept == IF adj THEN find_natural_break(cur, all_words, idx) ELSE cur
        idx2 == IF adj THEN PointerCorrection(idx, mw, Len(kept)) ELSE idx
    IN  [lines |-> Append(ls, JoinSeq(kept, <<" ">>)), word_idx |-> idx2]

\* The ellipsis and "\n".join(lines)
FinishTitle(all_words, idx, ls) ==
    LET ls2 == IF idx < Len(all_words)
               THEN [ls EXCEPT ![Len(ls)] = @ \o <<".", ".", ".">>]
               ELSE ls
    IN  JoinSeq(ls2, <<"\n">>)

InitTitle ==
    /\ \E n \in 0..MaxWords : \E ws \in [1..n -> Vocabulary] : \E l \in Layouts :
         node_content = RawText(ws, l)
    /\ max_words_per_line \in 1..MaxWordsPerLine
    /\ max_lines \in 1..MaxLinesBound
    /\ text = << >>
    /\ words = << >>
    /\ lines = << >>
    /\ current_line_words = << >>
    /\ word_idx = 0
    /\ line_num = 0
    /\ result = None
    /\ tpc = "start"

\* Normalization, the split and the one-line return.
TitleStart ==
    /\ tpc = "start"
    /\ text' = Normalize(node_content)
    /\ words' = Split(text')
    /\ IF Len(words') <= max_words_per_line
       THEN result' = text' /\ tpc' = "done"
       ELSE result' = result /\ tpc' = "collect"
    /\ UNCHANGED <<node_content, max_words_per_line, max_lines, lines,
                   current_line_words, word_idx, line_num, loadVars, graphVars>>

\* The for loop enters an iteration and its while loop collects the words.
Collect ==
    /\ tpc = "collect"
    /\ line_num < max_lines
    /\ word_idx < Len(words)
    /\ LET c == CollectWords(words, word_idx, current_line_words, max_words_per_line) IN
         /\ current_line_words' = c.current_line_words
         /\ word_idx' = c.word_idx
    /\ tpc' = "close"
    /\ UNCHANGED <<node_content, max_words_per_line, max_lines, text, words, lines,
                   line_num, result, loadVars, graphVars>>

\* The iteration adjusts the line, appends it and clears current_line_words.
Close ==
    /\ tpc = "close"
    /\ LET c == CloseLine(words, word_idx, current_line_words, line_num,
                          max_words_per_line, max_lines, lines) IN
         /\ lines' = c.lines
         /\ word_idx' = c.word_idx
    /\ current_line_words' = << >>
    /\ line_num' = line_num + 1
    /\ tpc' = "collect"
    /\ UNCHANGED <<node_content, max_words_per_line, max_lines, text, words, result,
                   loadVars, graphVars>>

\* The for loop ends (range exhausted, or break when no word is left); the
\* ellipsis is added and the lines are joined.
Finish ==
    /\ tpc = "collect"
    /\ ~(line_num < max_lines /\ word_idx < Len(words))
    /\ result' = FinishTitle(words, word_idx, lines)
    /\ tpc' = "done"
    /\ UNCHANGED <<node_content, max_words_per_line, max_lines, text, words, lines,
                   current_line_words, word_idx, line_num, loadVars, graphVars>>

NextTitle == TitleStart \/ Collect \/ Close \/ Finish

\* The whole function, as one value.
RECURSIVE TitleLoop(_, _, _, _, _, _)
TitleLoop(all_words, mw, ml, ln, idx, ls) ==
    IF ln < ml /\ idx < Len(all_words)
    THEN LET c == CollectWords(all_words, idx, << >>, mw)
             d == CloseLine(all_words, c.word_idx, c.current_line_words, ln, mw, ml, ls)
         IN  TitleLoop(all_words, mw, ml, ln + 1, d.word_idx, d.lines)
    ELSE FinishTitle(all_words, idx, ls)

get_smart_title(content, mw, ml) ==
    LET t == Normalize(content) IN
    IF Len(Split(t)) <= mw THEN t ELSE TitleLoop(Split(t), mw, ml, 0, 0, << >>)

(***************************************************************************)
(* Specifications                                                          *)
(***************************************************************************)
InitLoadSpec == InitLoad /\ GraphIdle /\ TitleIdle
SpecLoad == InitLoadSpec /\ [][NextLoad]_vars

InitGraphSpec == InitGraph /\ LoadIdle /\ TitleIdle
SpecGraph == InitGraphSpec /\ [][NextGraph]_vars

InitTitleSpec == InitTitle /\ LoadIdle /\ GraphIdle
SpecTitle == InitTitleSpec /\ [][NextTitle]_vars

(***************************************************************************)
(* Properties of load_graph_from_jsonl (SpecLoad)                          *)
(***************************************************************************)
\* The graph a payload stands for.
PayloadGraph(p) == IF p = "G1" THEN G1 ELSE G2

\* Line i is a recognised event of kind e carrying a non-empty graph.
CarriesGraph(lg, i, e) ==
    /\ lg[i].top = "object"
    /\ lg[i].event = e
    /\ lg[i].data = "object"
    /\ lg[i].graph \in {"G1", "G2"}

FinishAt(lg, i) == CarriesGraph(lg, i, "SystemFinishEvent")
MergeAt(lg, i) == CarriesGraph(lg, i, "GraphMergeEvent")

\* C1: terminal event wins.  Once the scan has read a SystemFinishEvent
\* record carrying a non-empty graph, it has stopped at that record, the
\* graph returned is that record's graph whatever was read before, and no
\* later record was read, changed the result or produced a warning or error.
C1_TerminalEventWins ==
    \A i \in 1..line_no :
        FinishAt(log, i) =>
            /\ lpc = "returned"
            /\ line_no = i
            /\ graph = PayloadGraph(log[i].graph)
            /\ \A w \in warnings : w < i

\* A merge, then the terminal event with another graph, then a record that
\* would otherwise end the scan with an error.
C1_Witness ==
    /\ Len(log) = 3
    /\ MergeAt(log, 1) /\ log[1].graph = "G1"
    /\ FinishAt(log, 2) /\ log[2].graph = "G2"
    /\ log[3].top = "nonobject"
    /\ lpc = "returned"
    /\ graph = G2

\* The graph of the last GraphMergeEvent record carrying a non-empty graph,
\* None when there is none.
LastMerge(lg) ==
    LET M == {i \in 1..Len(lg) : MergeAt(lg, i)} IN
    IF M = {} THEN None
    ELSE PayloadGraph(lg[CHOOSE i \in M : \A j \in M : j <= i].graph)

\* C2: last merge wins.  For a log with no SystemFinishEvent carrying a
\* non-empty graph, the scan returns the graph of the last GraphMergeEvent
\* record carrying a non-empty graph, and None exactly when there is no such
\* record.
C2_LastMergeWins ==
    (/\ lpc \in {"returned", "raised"}
     /\ \A i \in 1..Len(log) : ~FinishAt(log, i))
    => (lpc = "returned" /\ graph = LastMerge(log))

\* A record that is not valid JSON, not a JSON object, or a recognised event
\* whose data is not an object or whose graph cannot be built.
Malformed(r) ==
    \/ r.top \in {"badjson", "nonobject"}
    \/ /\ r.top = "object"
       /\ r.event \in {"SystemFinishEvent", "GraphMergeEvent"}
       /\ (r.data = "nonobject" \/ (r.data = "object" /\ r.graph = "nonmapping"))

RemoveMalformed(lg) == SelectSeq(lg, LAMBDA r : ~Malformed(r))

\* C3: malformed records never abort the scan.  Every malformed record read
\* got a warning and the scan went on, and the graph returned is the one the
\* log without its malformed records gives.
C3_MalformedSkipped ==
    /\ \A i \in 1..line_no :
         Malformed(log[i]) => (i \in warnings /\ lpc # "raised")
    /\ lpc = "returned" => graph = load_graph_from_jsonl(RemoveMalformed(log)).graph

(***************************************************************************)
(* Properties of calculate_node_levels and create_pyvis_network (SpecGraph)*)
(***************************************************************************)
\* The premises of n that are nodes of the graph.
ExistingPremises(g, n) ==
    {g.premises[n][i] : i \in 1..Len(g.premises[n])} \cap Nodes(g)

RECURSIVE PremiseClosure(_, _, _)
PremiseClosure(g, S, k) ==
    IF k = 0 THEN S
    ELSE PremiseClosure(g, S \cup UNION {ExistingPremises(g, m) : m \in S}, k - 1)

\* The nodes n rests on, directly or through other nodes.
Ancestors(g, n) == PremiseClosure(g, ExistingPremises(g, n), Cardinality(Nodes(g)))

OnCycle(g, n) == n \in Ancestors(g, n)
Acyclic(g) == \A n \in Nodes(g) : ~OnCycle(g, n)

SetMax(S) == CHOOSE m \in S : \A x \in S : x <= m

LevelsComputed == gpc \in {"nodes", "edges", "done", "raised"}

\* C4: for an acyclic graph calculate_node_levels returns a map whose keys
\* are exactly the nodes, with level 0 for a node none of whose premises is in
\* the graph and 1 + the largest level of its premises in the graph otherwise.
C4_LevelsOfAcyclicGraph ==
    (LevelsComputed /\ Acyclic(in_graph)) =>
        /\ gpc # "raised"
        /\ DOMAIN node_levels = Nodes(in_graph)
        /\ \A n \in Nodes(in_graph) :
             node_levels[n] =
                IF ExistingPremises(in_graph, n) = {} THEN 0
                ELSE 1 + SetMax({node_levels[p] : p \in ExistingPremises(in_graph, n)})

\* The chain a, b <- a, c <- b, where a has only a dangling premise and c
\* also names a: levels 0, 1, 2.
C4_Witness ==
    /\ gpc = "done"
    /\ in_graph.order = <<"a", "b", "c">>
    /\ in_graph.premises["a"] = <<"ghost">>
    /\ in_graph.premises["b"] = <<"a">>
    /\ in_graph.premises["c"] = <<"b", "a">>
    /\ node_levels["a"] = 0 /\ node_levels["b"] = 1 /\ node_levels["c"] = 2

\* C5: for a graph with a cycle calculate_node_levels ends without a crash
\* and gives every node on the cycle a level.
C5_CycleTerminates ==
    (LevelsComputed /\ ~Acyclic(in_graph)) =>
        /\ gpc # "raised"
        /\ \A n \in Nodes(in_graph) : OnCycle(in_graph, n) => n \in DOMAIN node_levels

\* Number of positions of a sequence that satisfy a test.
CountEdges(es, p, n) == Cardinality({i \in 1..Len(es) : es[i].source = p /\ es[i].to = n})
CountPremise(g, n, p) == Cardinality({i \in 1..Len(g.premises[n]) : g.premises[n][i] = p})

\* C7: every edge premise -> node emitted has a premise that is a node of the
\* graph, and the finished call has emitted exactly one edge for each entry of
\* a premise list that is a node of the graph, and one node per graph node.
C7_EdgesOfExistingPremises ==
    /\ \A i \in 1..Len(net_edges) :
         /\ net_edges[i].source \in Nodes(in_graph)
         /\ net_edges[i].to \in Nodes(in_graph)
    /\ gpc \in {"done", "raised"} =>
         /\ \A n \in Nodes(in_graph) : \A p \in Nodes(in_graph) :
              CountEdges(net_edges, p, n) = CountPremise(in_graph, n, p)
         /\ [i \in 1..Len(net_nodes) |-> net_nodes[i].id] = in_graph.order

\* C11: for an acyclic graph, every edge premise -> node emitted joins a
\* premise to a node of strictly greater level, both in the map
\* calculate_node_levels returned and in the levels given to the nodes added.
C11_LevelsIncreaseAlongEdges ==
    Acyclic(in_graph) =>
        \A i \in 1..Len(net_edges) :
            /\ net_edges[i].source \in DOMAIN node_levels
            /\ net_edges[i].to \in DOMAIN node_levels
            /\ node_levels[net_edges[i].source] < node_levels[net_edges[i].to]
            /\ \A j \in 1..Len(net_nodes) : \A k \in 1..Len(net_nodes) :
                 (net_nodes[j].id = net_edges[i].source /\ net_nodes[k].id = net_edges[i].to)
                 => net_nodes[j].level < net_nodes[k].level

\* The finished network of b <- a, c <- b and a: the edges a -> b, b -> c and
\* a -> c were emitted, the last one across two levels.
C11_Witness ==
    /\ gpc = "done"
    /\ in_graph.order = <<"a", "b", "c">>
    /\ in_graph.premises["a"] = << >>
    /\ in_graph.premises["b"] = <<"a">>
    /\ in_graph.premises["c"] = <<"b", "a">>
    /\ net_edges = <<[source |-> "a", to |-> "b"], [source |-> "b", to |-> "c"],
                     [source |-> "a", to |-> "c"]>>
    /\ node_levels["c"] = 2

(***************************************************************************)
(* Properties of get_smart_title (SpecTitle)                               *)
(***************************************************************************)
\* The lines of a string: the pieces between line breaks.
RECURSIVE SplitLinesFrom(_, _, _, _)
SplitLinesFrom(s, i, cur, acc) ==
    IF i > Len(s) THEN Append(acc, cur)
    ELSE IF s[i] = "\n" THEN SplitLinesFrom(s, i + 1, << >>, Append(acc, cur))
    ELSE SplitLinesFrom(s, i + 1, Append(cur, s[i]), acc)
SplitLines(s) == SplitLinesFrom(s, 1, << >>, << >>)

\* Number of words of a string: the positions where a word starts.
CountWords(s) ==
    Cardinality({i \in 1..Len(s) :
        s[i] \notin Whitespace /\ (i = 1 \/ s[i - 1] \in Whitespace)})

Marker == <<".", ".", ".">>
EndsWithMarker(s) == Len(s) >= 3 /\ SubSeq(s, Len(s) - 2, Len(s)) = Marker

\* C6: the output has at most max_lines lines and each line has at most
\* max_words_per_line words.
C6_OutputBounded ==
    tpc = "done" =>
        LET out == SplitLines(result) IN
        /\ Len(out) <= max_lines
        /\ \A i \in 1..Len(out) : CountWords(out[i]) <= max_words_per_line

\* A truncated output that fills every permitted line to the bound.
C6_Witness ==
    /\ tpc = "done"
    /\ max_lines >= 2
    /\ max_words_per_line >= 2
    /\ EndsWithMarker(result)
    /\ LET out == SplitLines(result) IN
         /\ Len(out) = max_lines
         /\ \A i \in 1..Len(out) : CountWords(out[i]) = max_words_per_line

\* The text with every whitespace run between two words turned into one space
\* and the whitespace at both ends dropped.
RECURSIVE CollapseFrom(_, _)
CollapseFrom(s, i) ==
    IF i > Len(s) THEN << >>
    ELSE IF s[i] \notin Whitespace THEN <<s[i]>> \o CollapseFrom(s, i + 1)
    ELSE IF /\ i > 1
            /\ s[i - 1] \notin Whitespace
            /\ \E j \in (i + 1)..Len(s) : s[j] \notin Whitespace
    THEN <<" ">> \o CollapseFrom(s, i + 1)
    ELSE CollapseFrom(s, i + 1)
Collapse(s) == CollapseFrom(s, 1)

\* C8: a text of at most max_words_per_line words comes back as its
\* normalized text, on one line and without the marker, whatever max_lines is,
\* and formatting that result again returns it unchanged.
C8_ShortCircuit ==
    (tpc = "done" /\ CountWords(node_content) <= max_words_per_line) =>
        /\ result = Collapse(node_content)
        /\ Len(SplitLines(result)) = 1
        /\ ~EndsWithMarker(result)
        /\ get_smart_title(result, max_words_per_line, max_lines) = result

\* A raw text with padding and line breaks that has exactly as many words as
\* one line may hold, formatted with max_lines = 1.
C8_Witness ==
    /\ tpc = "done"
    /\ max_lines = 1
    /\ max_words_per_line >= 2
    /\ CountWords(node_content) = max_words_per_line
    /\ node_content # result
    /\ result = Collapse(node_content)

\* The line is being closed with the natural-break adjustment applied.
ClosingAdjusted ==
    /\ tpc = "close"
    /\ AdjustCond(line_num, max_lines, word_idx, words)

\* The 1-based positions, among the last k words placed on the line and not
\* before position lo, of the words that end with break punctuation.
Qualifying(k, lo) ==
    {j \in 1..Len(current_line_words) :
        /\ j > Len(current_line_words) - k
        /\ j >= lo
        /\ EndsWithBreak(current_line_words[j])}

\* The line is cut right after its j-th word and the words after it are
\* unconsumed again.
CutAfter(j) ==
    /\ lines' = Append(lines, JoinSeq(SubSeq(current_line_words, 1, j), <<" ">>))
    /\ word_idx' = word_idx - (Len(current_line_words) - j)

\* C9 as stated: on a line that gets the adjustment, if any of the last 4
\* words placed ends with break punctuation, the line is cut right after the
\* last such word and the words after it go back to the unconsumed words.
C9_PunctuationBreakLast4 ==
    [][(ClosingAdjusted /\ Qualifying(4, 1) # {}) => CutAfter(SetMax(Qualifying(4, 1)))]_vars

\* C9 amended: the same for the last 3 words placed, the first word of the
\* line excepted.
C9_PunctuationBreakLast3 ==
    [][(ClosingAdjusted /\ Qualifying(3, 2) # {}) => CutAfter(SetMax(Qualifying(3, 2)))]_vars

\* Four words were placed, the second ends with a comma: the line was cut
\* after it and the two words after it are unconsumed again.
C9_Witness ==
    /\ tpc = "collect"
    /\ line_num = 1
    /\ max_words_per_line = 4
    /\ max_lines >= 2
    /\ SubSeq(words, 1, 4) = <<<<"a", "b">>, <<"c", ",">>, <<"a", "b">>, <<"a", "b">>>>
    /\ Len(words) > 4
    /\ lines = <<<<"a", "b", " ", "c", ",">>>>
    /\ word_idx = 2

\* The last word of a string without the marker.
DropMarker(w) == SubSeq(w, 1, Len(w) - 3)

\* C10: for a text of more than max_words_per_line words, the words of the
\* output read in order are a prefix of the words of the input, and the
\* marker ends the last line exactly when that prefix is not the whole input.
C10_NoWordLostOrDuplicated ==
    (tpc = "done" /\ CountWords(node_content) > max_words_per_line) =>
        LET all == Split(node_content)
            out == Split(result)
            k   == Len(out)
        IN  /\ k >= 1
            /\ k <= Len(all)
            /\ SubSeq(out, 1, k - 1) = SubSeq(all, 1, k - 1)
            /\ IF k = Len(all)
               THEN out[k] = all[k]
               ELSE EndsWithMarker(out[k]) /\ DropMarker(out[k]) = all[k]
            /\ EndsWithMarker(result) <=> k < Len(all)

\* An output of several lines where a line gave words back (it is shorter
\* than the bound) and words are left over at the end.
C10_Witness ==
    /\ tpc = "done"
    /\ CountWords(node_content) > max_words_per_line
    /\ EndsWithMarker(result)
    /\ LET out == SplitLines(result) IN
         /\ Len(out) >= 2
         /\ CountWords(out[1]) < max_words_per_line
         /\ CountWords(out[Len(out)]) = max_words_per_line
====
